---- MODULE Spec2Model ----
(***************************************************************************)
(* Model of the backtesting pipeline of AlgoTradingStrategies:             *)
(*   SMACrossover.generate_signals   (src/strategies/sma_crossover.py)     *)
(*   TradingEnvironment.run          (src/core/trading_env.py)             *)
(*                                                                         *)
(* data_dict is the nested dict {symbol: {timeframe: DataFrame}} flattened *)
(* to the sequence of (symbol, timeframe) pairs in iteration order; a      *)
(* DataFrame is the sequence of its closes, and the timestamp of a bar is  *)
(* its position in the frame (the index is strictly increasing).           *)
(*                                                                         *)
(* Floating point values are pairs <<n, d>>: the rational n/d in lowest    *)
(* terms when d > 0, and the IEEE specials when d = 0 (<<1,0>> is inf,     *)
(* <<-1,0>> is -inf, <<0,0>> is NaN).  Arithmetic is exact on rationals    *)
(* and follows IEEE 754 on the specials; rounding is not modelled, so an   *)
(* equality of amounts is an equality of real numbers (in doubles          *)
(* (1000 / 0.11) * 0.11 is one ulp away from 1000).                        *)
(*                                                                         *)
(* Input closes are finite and not negative, and every frame has the       *)
(* DatetimeIndex generate_signals reads; plotting and the file written by  *)
(* dump_trades_to_csv are not part of the state.                           *)
(***************************************************************************)
EXTENDS Integers, Sequences, FiniteSets, TLC

(* ------------------------------ bounds -------------------------------- *)
\* most (symbol, timeframe) pairs in data_dict
MaxPairs == 2
\* largest data_dict: its pairs and their bars, counted together
MaxSize == 6
\* largest close of a bar
MaxPrice == 2
\* largest moving-average window
MaxWindow == 3

\* default of the cash parameter of TradingEnvironment.__init__
InitialCash == 1000

(* --------------------------- float values ----------------------------- *)
Abs(x) == IF x < 0 THEN 0 - x ELSE x

Sgn(x) == IF x > 0 THEN 1 ELSE IF x < 0 THEN 0 - 1 ELSE 0

RECURSIVE GCD(_, _)
GCD(a, b) == IF b = 0 THEN a ELSE GCD(b, a % b)

\* n/d with d >= 0, in lowest terms; d = 0 gives inf, -inf or NaN
Norm(n, d) ==
    IF d = 0 THEN <<Sgn(n), 0>>
    ELSE LET g == GCD(Abs(n), d) IN <<n \div g, d \div g>>

Num(k) == <<k, 1>>
Zero == <<0, 1>>
NaN == <<0, 0>>
Inf == <<1, 0>>

IsNaN(x) == x = NaN
\* x * y
Mul(x, y) == Norm(x[1] * y[1], x[2] * y[2])

\* x / y on numpy floats: a division by zero is inf or NaN, not an exception
Div(x, y) ==
    IF y[1] < 0 THEN Norm((0 - x[1]) * y[2], x[2] * (0 - y[1]))
    ELSE Norm(x[1] * y[2], x[2] * y[1])

\* x - y
Sub(x, y) ==
    IF x[2] = 0 /\ y[2] = 0
    THEN (IF x[1] # 0 /\ y[1] # 0 /\ x[1] # y[1] THEN x ELSE NaN)
    ELSE Norm(x[1] * y[2] - y[1] * x[2], x[2] * y[2])

\* x == y (false when either is NaN)
FloatEq(x, y) == x = y /\ ~IsNaN(x)

\* x > y (false when either is NaN)
FloatGt(x, y) ==
    /\ ~IsNaN(x) /\ ~IsNaN(y)
    /\ IF x[2] = 0 \/ y[2] = 0
       THEN (x[2] = 0 /\ x[1] = 1 /\ y # Inf) \/ (y[2] = 0 /\ y[1] = 0 - 1 /\ x # <<0 - 1, 0>>)
       ELSE x[1] * y[2] > y[1] * x[2]

(* ------------------------- SMACrossover ------------------------------- *)
RECURSIVE SumCloses(_, _, _)
SumCloses(closes, lo, hi) ==
    IF lo > hi THEN 0 ELSE closes[hi] + SumCloses(closes, lo, hi - 1)

\* a rolling mean over the bars there are while the window is not full
RollingMeanPartial(closes, w, i) ==
    IF w >= 1
    THEN (IF i >= w THEN Norm(SumCloses(closes, i - w + 1, i), w)
          ELSE Norm(SumCloses(closes, 1, i), i))
    ELSE NaN

\* a rolling mean whose first value comes one bar late
RollingMeanLateStart(closes, w, i) ==
    IF w >= 1 /\ i > w THEN Norm(SumCloses(closes, i - w + 1, i), w) ELSE NaN

\* df['close'].rolling(window=w).mean() at bar i (1-based): NaN until the
\* window is full, and NaN everywhere for a window of 0
RollingMean(closes, w, i) ==
    IF w >= 1 /\ i >= w THEN Norm(SumCloses(closes, i - w + 1, i), w) ELSE NaN

\* a comparison that sends a tie to a long signal
SignalAtTiesLong(fast_sma, slow_sma) ==
    IF IsNaN(fast_sma) \/ IsNaN(slow_sma) THEN 0
    ELSE IF FloatGt(slow_sma, fast_sma) THEN 0 - 1
    ELSE 1

\* one iteration of the loop of _generate_signals_numba
SignalAt(fast_sma, slow_sma) ==
    IF IsNaN(fast_sma) \/ IsNaN(slow_sma) THEN 0
    ELSE IF FloatGt(fast_sma, slow_sma) THEN 1
    ELSE IF FloatGt(slow_sma, fast_sma) THEN 0 - 1
    ELSE 0

\* np.roll(signal, 1): every entry moves one bar later, the last wraps
\* around to the front
Roll(sig) == [k \in 1..Len(sig) |-> sig[((k - 2) % Len(sig)) + 1]]

\* df.loc[df.index[0], 'position'] = 0: the row labelled with the first
\* timestamp (one row, the timestamps being distinct) is set to 0
ResetFirst(col) == [col EXCEPT ![1] = 0]

\* a frame whose lagged position keeps the wrapped-around last signal
SignalFrameNoReset(closes, f, s) ==
    LET sig == [k \in 1..Len(closes) |->
                   SignalAt(RollingMean(closes, f, k), RollingMean(closes, s, k))]
        lagged == Roll(sig)
    IN [k \in 1..Len(closes) |->
           [close |-> Num(closes[k]), signal |-> sig[k], position |-> lagged[k]]]

\* the frame generate_signals returns for one pair: per bar the close, the
\* signal, and the lagged position feature (np.roll of the signal by one,
\* its first entry then set to 0)
SignalFrame(closes, f, s) ==
    LET sig == [k \in 1..Len(closes) |->
                   SignalAt(RollingMean(closes, f, k), RollingMean(closes, s, k))]
        lagged == ResetFirst(Roll(sig))
    IN [k \in 1..Len(closes) |->
           [close |-> Num(closes[k]), signal |-> sig[k], position |-> lagged[k]]]

(* ---------------------- TradingEnvironment.run ------------------------ *)
\* an equity estimate that ignores the open position
CurrentEquityCashOnly(pos, csh, price) == csh

\* the equity estimate of a bar, from the state the bar is entered with
CurrentEquity(pos, csh, price) ==
    IF FloatGt(pos, Zero) THEN Mul(pos, price) ELSE csh

\* a position sized by multiplying instead of dividing
BuySizeTimesPrice(csh, price) == Mul(csh, price)

\* units bought with all the cash
BuySize(csh, price) == Div(csh, price)

\* proceeds that leave out the price
ProceedsUnits(pos, price) == pos

\* cash received for the whole position
Proceeds(pos, price) == Mul(pos, price)

\* an entry lookup that scans the log from the front
EntryOfFirst(hist) ==
    LET buys == {k \in 1..Len(hist) : hist[k].action = "BUY"}
    IN hist[CHOOSE k \in buys : \A j \in buys : k <= j]

\* next(t for t in reversed(history) if t["action"] == "BUY")
EntryOf(hist) ==
    LET buys == {k \in 1..Len(hist) : hist[k].action = "BUY"}
    IN hist[CHOOSE k \in buys : \A j \in buys : j <= k]

BuyRecord(index, price, size, equity) ==
    [datetime |-> index, action |-> "BUY", price |-> price,
     position_size |-> size, pnl |-> Zero, cumulative_equity |-> Zero,
     interpolated_equity |-> equity]

SellRecord(index, price, entry, proceeds) ==
    [datetime |-> index, action |-> "SELL", price |-> price,
     position_size |-> entry.position_size,
     pnl |-> Sub(proceeds, Mul(entry.position_size, entry.price)),
     cumulative_equity |-> proceeds, interpolated_equity |-> proceeds]

\* a final value that is the cash whatever the position
FinalValueCashOnly(csh, pos, df) == csh

\* cash if position == 0 else position * df.iloc[-1]['close']
FinalValue(csh, pos, df) ==
    IF FloatEq(pos, Zero) THEN csh ELSE Mul(pos, df[Len(df)].close)

(* ------------------------------ inputs -------------------------------- *)
\* closes of the input bars; 0 stands for the closes that are not positive
PriceSet == 0..MaxPrice

WindowSet == (0 - 1)..MaxWindow

SeriesUpTo(n) == UNION {[1..k -> PriceSet] : k \in 0..n}

\* every data_dict of k pairs whose pairs and bars number at most budget
RECURSIVE DictsOf(_, _)
DictsOf(k, budget) ==
    IF k = 0 THEN {<<>>}
    ELSE IF budget < 1 THEN {}
    ELSE UNION {{<<s>> \o d : d \in DictsOf(k - 1, budget - 1 - Len(s))} :
                    s \in SeriesUpTo(budget - 1)}

DataDicts == UNION {DictsOf(k, MaxSize) : k \in 0..MaxPairs}

\* the worked example of the specification: closes, and (fast, slow)
ScenarioCloses == <<1, 2, 3, 4, 5, 4, 3, 2, 1>>
ScenarioWindows == <<2, 3>>

(* ------------------------------- state -------------------------------- *)
VARIABLES
    fast, slow,      \* SMACrossover.fast, SMACrossover.slow
    data_dict,       \* TradingEnvironment.data_dict
    signal_dict,     \* the frames generate_signals returned
    results,         \* TradingEnvironment.results, in the order recorded
    pc,              \* "start", "pairs", "bars", "done", "evaluated", "failed"
    error,           \* the exception that ended run and the pair it rose in
    p,               \* the pair the loop is at (0 before the first)
    i,               \* bars of pair p already processed
    cash, position, history, equity_curve    \* locals of run

vars == <<fast, slow, data_dict, signal_dict, results, pc, error, p, i,
          cash, position, history, equity_curve>>

NoError == [type |-> "none", pair |-> 0]

\* the state after SMACrossover(fast, slow) and
\* TradingEnvironment(strategy, data_dict) are constructed
Init ==
    /\ \/ /\ fast \in WindowSet
          /\ slow \in WindowSet
          /\ data_dict \in DataDicts
       \/ /\ fast = ScenarioWindows[1]
          /\ slow = ScenarioWindows[2]
          /\ data_dict = <<ScenarioCloses>>
    /\ signal_dict = <<>>
    /\ results = <<>>
    /\ pc = "start"
    /\ error = NoError
    /\ p = 0
    /\ i = 0
    /\ cash = Num(InitialCash)
    /\ position = Zero
    /\ history = <<>>
    /\ equity_curve = <<>>

\* the first pair generate_signals raises at, 0 when it raises at none:
\* rolling() rejects a negative window, df.index[0] an empty frame
FirstRaising ==
    IF Len(data_dict) = 0 THEN 0
    ELSE IF fast < 0 \/ slow < 0 THEN 1
    ELSE IF \E q \in 1..Len(data_dict) : Len(data_dict[q]) = 0
         THEN CHOOSE q \in 1..Len(data_dict) :
                  /\ Len(data_dict[q]) = 0
                  /\ \A r \in 1..(q - 1) : Len(data_dict[r]) > 0
    ELSE 0

RaisedType ==
    IF fast < 0 \/ slow < 0 THEN "ValueError" ELSE "IndexError"

\* run, line 50: generate_signals returns a frame for every pair
GenerateSignals ==
    /\ pc = "start"
    /\ FirstRaising = 0
    /\ signal_dict' = [q \in 1..Len(data_dict) |->
                          SignalFrame(data_dict[q], fast, slow)]
    /\ pc' = "pairs"
    /\ UNCHANGED <<fast, slow, data_dict, results, error, p, i,
                   cash, position, history, equity_curve>>

\* run, line 50: generate_signals raises, and run with it
GenerateSignalsRaises ==
    /\ pc = "start"
    /\ FirstRaising # 0
    /\ pc' = "failed"
    /\ error' = [type |-> RaisedType, pair |-> FirstRaising]
    /\ UNCHANGED <<fast, slow, data_dict, signal_dict, results, p, i,
                   cash, position, history, equity_curve>>

\* a start of a pair that resets the cash for the first pair only
StartPairKeepsCash ==
    /\ pc = "pairs"
    /\ p < Len(signal_dict)
    /\ p' = p + 1
    /\ i' = 0
    /\ cash' = IF p = 0 THEN Num(InitialCash) ELSE cash
    /\ position' = Zero
    /\ history' = <<>>
    /\ equity_curve' = <<>>
    /\ pc' = "bars"
    /\ UNCHANGED <<fast, slow, data_dict, signal_dict, results, error>>

\* run, lines 53-57: the next pair starts with the configured cash
StartPair ==
    /\ pc = "pairs"
    /\ p < Len(signal_dict)
    /\ p' = p + 1
    /\ i' = 0
    /\ cash' = Num(InitialCash)
    /\ position' = Zero
    /\ history' = <<>>
    /\ equity_curve' = <<>>
    /\ pc' = "bars"
    /\ UNCHANGED <<fast, slow, data_dict, signal_dict, results, error>>

\* the row the loop of lines 58-93 reads next
Row == signal_dict[p][i + 1]

EquityPoint == <<i + 1, CurrentEquity(position, cash, Row.close)>>

\* a BUY on every bar with signal 1, whatever the position
BarBuyWhileLong ==
    /\ pc = "bars"
    /\ i < Len(signal_dict[p])
    /\ Row.signal = 1
    /\ equity_curve' = Append(equity_curve, EquityPoint)
    /\ position' = BuySize(cash, Row.close)
    /\ cash' = Zero
    /\ history' = Append(history,
           BuyRecord(i + 1, Row.close, BuySize(cash, Row.close), EquityPoint[2]))
    /\ i' = i + 1
    /\ UNCHANGED <<fast, slow, data_dict, signal_dict, results, pc, error, p>>

\* lines 58-78: a bar with signal 1 while position == 0
BarBuy ==
    /\ pc = "bars"
    /\ i < Len(signal_dict[p])
    /\ Row.signal = 1 /\ FloatEq(position, Zero)
    /\ equity_curve' = Append(equity_curve, EquityPoint)
    /\ position' = BuySize(cash, Row.close)
    /\ cash' = Zero
    /\ history' = Append(history,
           BuyRecord(i + 1, Row.close, BuySize(cash, Row.close), EquityPoint[2]))
    /\ i' = i + 1
    /\ UNCHANGED <<fast, slow, data_dict, signal_dict, results, pc, error, p>>

\* a SELL that does not reset the position
BarSellKeepsPosition ==
    /\ pc = "bars"
    /\ i < Len(signal_dict[p])
    /\ ~(Row.signal = 1 /\ FloatEq(position, Zero))
    /\ Row.signal = 0 - 1 /\ FloatGt(position, Zero)
    /\ equity_curve' = Append(equity_curve, EquityPoint)
    /\ cash' = Proceeds(position, Row.close)
    /\ history' = Append(history,
           SellRecord(i + 1, Row.close, EntryOf(history),
                      Proceeds(position, Row.close)))
    /\ i' = i + 1
    /\ UNCHANGED <<fast, slow, data_dict, signal_dict, results, pc, error, p,
                   position>>

\* lines 58-66, 79-93: a bar with signal -1 while position > 0
BarSell ==
    /\ pc = "bars"
    /\ i < Len(signal_dict[p])
    /\ ~(Row.signal = 1 /\ FloatEq(position, Zero))
    /\ Row.signal = 0 - 1 /\ FloatGt(position, Zero)
    /\ equity_curve' = Append(equity_curve, EquityPoint)
    /\ cash' = Proceeds(position, Row.close)
    /\ history' = Append(history,
           SellRecord(i + 1, Row.close, EntryOf(history),
                      Proceeds(position, Row.close)))
    /\ position' = Zero
    /\ i' = i + 1
    /\ UNCHANGED <<fast, slow, data_dict, signal_dict, results, pc, error, p>>

\* a bar without a trade that records equity only while a position is open
BarHoldSkipsFlat ==
    /\ pc = "bars"
    /\ i < Len(signal_dict[p])
    /\ ~(Row.signal = 1 /\ FloatEq(position, Zero))
    /\ ~(Row.signal = 0 - 1 /\ FloatGt(position, Zero))
    /\ equity_curve' = IF FloatGt(position, Zero)
                       THEN Append(equity_curve, EquityPoint)
                       ELSE equity_curve
    /\ i' = i + 1
    /\ UNCHANGED <<fast, slow, data_dict, signal_dict, results, pc, error, p,
                   cash, position, history>>

\* lines 58-66: any other bar only adds its equity point
BarHold ==
    /\ pc = "bars"
    /\ i < Len(signal_dict[p])
    /\ ~(Row.signal = 1 /\ FloatEq(position, Zero))
    /\ ~(Row.signal = 0 - 1 /\ FloatGt(position, Zero))
    /\ equity_curve' = Append(equity_curve, EquityPoint)
    /\ i' = i + 1
    /\ UNCHANGED <<fast, slow, data_dict, signal_dict, results, pc, error, p,
                   cash, position, history>>

\* lines 94-102: the pair's result is recorded; dump_trades_to_csv has a
\* column "interpolated_equity" to read only when the log is not empty
FinishPair ==
    /\ pc = "bars"
    /\ i = Len(signal_dict[p])
    /\ history # <<>>
    /\ results' = Append(results,
           [pair |-> p, history |-> history,
            final_value |-> FinalValue(cash, position, signal_dict[p]),
            equity_curve |-> equity_curve])
    /\ pc' = "pairs"
    /\ UNCHANGED <<fast, slow, data_dict, signal_dict, error, p, i,
                   cash, position, history, equity_curve>>

\* lines 94-97, 106-107: with an empty log the frame built from it has no
\* columns, trade_df["interpolated_equity"] raises KeyError, and run with it
FinishPairRaises ==
    /\ pc = "bars"
    /\ i = Len(signal_dict[p])
    /\ history = <<>>
    /\ pc' = "failed"
    /\ error' = [type |-> "KeyError", pair |-> p]
    /\ UNCHANGED <<fast, slow, data_dict, signal_dict, results, p, i,
                   cash, position, history, equity_curve>>

\* line 103: every pair is done
Return ==
    /\ pc = "pairs"
    /\ p = Len(signal_dict)
    /\ pc' = "done"
    /\ UNCHANGED <<fast, slow, data_dict, signal_dict, results, error, p, i,
                   cash, position, history, equity_curve>>

(* ------------- TradingEnvironment.evaluate_performance ---------------- *)
\* the values of an equity curve: [val for _, val in equity_curve]
EquityValues(curve) == [k \in 1..Len(curve) |-> curve[k][2]]

\* the largest of a set of floats, NaN being skipped; NaN when none is left
MaxOf(xs) ==
    LET kept == xs \ {NaN}
    IN IF kept = {} THEN NaN
       ELSE CHOOSE x \in kept : \A y \in kept : ~FloatGt(y, x)

\* equity_series.iloc[-1] / equity_series.iloc[0] - 1
TotalReturn(eq) == Sub(Div(eq[Len(eq)], eq[1]), Num(1))

\* equity_series.cummax() at k
CumMax(eq, k) ==
    IF IsNaN(eq[k]) THEN NaN ELSE MaxOf({eq[j] : j \in 1..k})

\* ((cummax - equity) / cummax).max()
MaxDrawdown(eq) ==
    MaxOf({Div(Sub(CumMax(eq, k), eq[k]), CumMax(eq, k)) : k \in 1..Len(eq)})

\* equity_series.pct_change().dropna(), as the bars that keep a return
ReturnAt(eq, k) == Sub(Div(eq[k], eq[k - 1]), Num(1))

ReturnBars(eq) == {k \in 2..Len(eq) : ~IsNaN(ReturnAt(eq, k))}

\* whether the Sharpe ratio is NaN: the standard deviation of the returns
\* is 0 (all returns equal) or is itself NaN (fewer than two returns, or an
\* infinite one); otherwise it is mean / std * sqrt(252 * 24 * 4)
SharpeIsNaN(eq) ==
    \/ Cardinality(ReturnBars(eq)) < 2
    \/ \E k \in ReturnBars(eq) : ReturnAt(eq, k)[2] = 0
    \/ \A j, k \in ReturnBars(eq) : ReturnAt(eq, j) = ReturnAt(eq, k)

\* the rows evaluate_performance returns, one per recorded result
Metrics ==
    [r \in 1..Len(results) |->
        LET eq == EquityValues(results[r].equity_curve)
        IN [pair |-> results[r].pair,
            total_return |-> TotalReturn(eq),
            max_drawdown |-> MaxDrawdown(eq),
            sharpe_is_nan |-> SharpeIsNaN(eq),
            final_value |-> results[r].final_value]]

\* backtester, line 35: evaluate_performance reads the results of run
EvaluatePerformance ==
    /\ pc = "done"
    /\ pc' = "evaluated"
    /\ UNCHANGED <<fast, slow, data_dict, signal_dict, results, error, p, i,
                   cash, position, history, equity_curve>>

Next ==
    \/ GenerateSignals
    \/ GenerateSignalsRaises
    \/ StartPair
    \/ BarBuy
    \/ BarSell
    \/ BarHold
    \/ FinishPair
    \/ FinishPairRaises
    \/ Return
    \/ EvaluatePerformance

Spec == Init /\ [][Next]_vars

(* ------------------------------ claims -------------------------------- *)
Last(seq) == seq[Len(seq)]

AllPositive(closes) == \A k \in 1..Len(closes) : closes[k] > 0

\* a bar of pair p has just been processed by this step
BarStep == pc = "bars" /\ pc' = "bars" /\ i' = i + 1

Traded(action) ==
    Len(history') = Len(history) + 1 /\ Last(history').action = action

Alternates(hist) ==
    /\ Len(hist) > 0 => hist[1].action = "BUY"
    /\ \A k \in 1..(Len(hist) - 1) : hist[k].action # hist[k + 1].action

\* C1: the trade log strictly alternates BUY, SELL, BUY, ... starting with
\* a BUY: after any prefix of bars no two consecutive records have the
\* same action.
C1_Alternation ==
    /\ Alternates(history)
    /\ \A r \in 1..Len(results) : Alternates(results[r].history)

OnePointPerBar(curve, n) ==
    /\ Len(curve) = n
    /\ \A k \in 1..Len(curve) : curve[k][1] = k

\* C2: the equity curve has exactly one point per input bar, in bar order:
\* after the first k bars it holds k points stamped with the first k bars,
\* and a returned curve is as long as the pair's price series.
C2_EquityLength ==
    /\ pc = "bars" => OnePointPerBar(equity_curve, i)
    /\ \A r \in 1..Len(results) :
           OnePointPerBar(results[r].equity_curve,
                          Len(data_dict[results[r].pair]))

C2_Witness ==
    /\ pc = "done"
    /\ \E r \in 1..Len(results) : Len(results[r].equity_curve) >= 3

\* C3: capital conservation on series with positive closes: right after a
\* BUY, position size times entry price equals the cash held just before
\* it and cash is 0; right after a SELL, cash equals the position held just
\* before it times the bar's close and position is 0.
C3_CapitalConservation ==
    [][(BarStep /\ AllPositive(data_dict[p])) =>
          /\ Traded("BUY") =>
                /\ FloatEq(Mul(Last(history').position_size,
                               Last(history').price), cash)
                /\ FloatEq(Mul(position', Row.close), cash)
                /\ Last(history').price = Row.close
                /\ FloatEq(cash', Zero)
          /\ Traded("SELL") =>
                /\ FloatEq(cash', Mul(position, Row.close))
                /\ FloatEq(position', Zero)]_vars

C3_Witness ==
    /\ pc = "bars"
    /\ AllPositive(data_dict[p])
    /\ Len(history) = 3
    /\ history[2].action = "SELL" /\ history[3].action = "BUY"
    /\ history[1].price # history[2].price

IsFlat == FloatEq(position, Zero) /\ FloatGt(cash, Zero)

IsLong == FloatGt(position, Zero) /\ FloatEq(cash, Zero)

\* C4: on a series with positive closes the simulator is always either
\* Flat (cash > 0, position = 0) or Long (position > 0, cash = 0), never
\* both and never neither, and position is never negative.
C4_FlatOrLong ==
    (p >= 1 /\ AllPositive(data_dict[p])) =>
        /\ IsFlat \/ IsLong
        /\ ~(IsFlat /\ IsLong)
        /\ ~FloatGt(Zero, position)

C4_Witness ==
    /\ pc = "bars"
    /\ AllPositive(data_dict[p])
    /\ IsLong
    /\ Len(history) = 3

\* C5: the equity point of a bar is computed from the state the bar is
\* entered with, before its BUY or SELL is applied: position * close if
\* the bar is entered Long, else the cash it is entered with.
C5_EquityBeforeTrade ==
    [][BarStep =>
          /\ Len(equity_curve') = Len(equity_curve) + 1
          /\ Last(equity_curve')[1] = i + 1
          /\ Last(equity_curve')[2] =
                 IF FloatGt(position, Zero)
                 THEN Mul(position, signal_dict[p][i + 1].close)
                 ELSE cash]_vars

C5_Witness ==
    /\ pc = "bars"
    /\ Len(history) = 2 /\ history[2].datetime = i
    /\ Len(equity_curve) = i
    /\ equity_curve[i][2] # equity_curve[i - 1][2]
    /\ IsFlat

IsScenario ==
    /\ data_dict = <<ScenarioCloses>>
    /\ fast = ScenarioWindows[1]
    /\ slow = ScenarioWindows[2]

ScenarioSignals == <<0, 0, 1, 1, 1, 1, 0 - 1, 0 - 1, 0 - 1>>

ScenarioEquity ==
    <<<<1, Num(1000)>>, <<2, Num(1000)>>, <<3, Num(1000)>>,
      <<4, Norm(4000, 3)>>, <<5, Norm(5000, 3)>>, <<6, Norm(4000, 3)>>,
      <<7, Num(1000)>>, <<8, Num(1000)>>, <<9, Num(1000)>>>>

TradeIs(t, action, price, size, pnl) ==
    /\ t.action = action
    /\ t.price = price
    /\ t.position_size = size
    /\ t.pnl = pnl

\* C6: closes 1,2,3,4,5,4,3,2,1 with fast = 2, slow = 3 and cash 1000 give
\* the signals 0,0,1,1,1,1,-1,-1,-1, the equity curve 1000, 1000, 1000,
\* 4000/3, 5000/3, 4000/3, 1000, 1000, 1000, exactly two trades (BUY at 3,
\* size 1000/3, pnl 0; SELL at 3, size 1000/3, pnl 0) and final value 1000.
C6_Scenario ==
    IsScenario =>
        /\ pc # "failed"
        /\ pc # "start" =>
               [k \in 1..Len(signal_dict[1]) |-> signal_dict[1][k].signal]
                   = ScenarioSignals
        /\ pc = "done" =>
               /\ Len(results) = 1
               /\ results[1].equity_curve = ScenarioEquity
               /\ Len(results[1].history) = 2
               /\ TradeIs(results[1].history[1], "BUY", Num(3),
                          Norm(1000, 3), Zero)
               /\ TradeIs(results[1].history[2], "SELL", Num(3),
                          Norm(1000, 3), Zero)
               /\ results[1].final_value = Num(1000)

C6_Witness == IsScenario /\ pc = "done"

InvalidWindows == fast >= slow \/ fast <= 0 \/ slow <= 0

\* C7: a series with a close <= 0 ends in an error for its pair: run never
\* executes a BUY at a non-positive price and never records a successful
\* result for such a series (stated for correctly configured windows).
C7_InvalidPriceRejected ==
    ~InvalidWindows =>
        /\ \A k \in 1..Len(history) :
               history[k].action = "BUY" => FloatGt(history[k].price, Zero)
        /\ \A r \in 1..Len(results) :
               AllPositive(data_dict[results[r].pair])

EmptyPairs == {q \in 1..Len(data_dict) : Len(data_dict[q]) = 0}

HasResult(q) == \E r \in 1..Len(results) : results[r].pair = q

\* C8: for a pair whose series has zero bars the pipeline does not fail:
\* it completes and records an empty trade log and an empty equity curve
\* for that pair (stated for correctly configured windows).
C8_EmptySeriesCompletes ==
    ~InvalidWindows =>
        /\ pc = "failed" => error.pair \notin EmptyPairs
        /\ pc = "done" =>
               \A q \in EmptyPairs :
                   \E r \in 1..Len(results) :
                       /\ results[r].pair = q
                       /\ results[r].history = <<>>
                       /\ results[r].equity_curve = <<>>

\* C9: a failure in one pair does not abort its siblings: when run ends,
\* every pair other than the failing one has been processed and has an
\* outcome recorded (stated for correctly configured windows and series
\* that all have bars, every close positive).
C9_SiblingsProcessed ==
    (/\ ~InvalidWindows
     /\ \A q \in 1..Len(data_dict) :
            Len(data_dict[q]) > 0 /\ AllPositive(data_dict[q])
     /\ pc \in {"done", "failed"}) =>
        \A q \in 1..Len(data_dict) : q # error.pair => HasResult(q)

\* C10: an SMACrossover with fast >= slow, fast <= 0 or slow <= 0 is
\* rejected at construction, so no such instance ever produces signals.
C10_InvalidWindowsRejected ==
    InvalidWindows => signal_dict = <<>>

RECURSIVE TrailingSum(_, _, _)
\* the sum of the w closes ending at bar k
TrailingSum(closes, w, k) ==
    IF w = 0 THEN 0 ELSE closes[k] + TrailingSum(closes, w - 1, k - 1)

\* a trailing mean over w bars ending at bar k (1-based) is defined
MeanDefined(w, k) == w >= 1 /\ k >= w

\* the signal the crossover rule prescribes at bar k: the two means are
\* compared as fractions, sum / window
RuleSignal(closes, k) ==
    IF ~(MeanDefined(fast, k) /\ MeanDefined(slow, k)) THEN 0
    ELSE LET f == TrailingSum(closes, fast, k) * slow
             s == TrailingSum(closes, slow, k) * fast
         IN IF f > s THEN 1 ELSE IF f < s THEN 0 - 1 ELSE 0

\* C11: at every bar the signal is +1 if both trailing means are defined
\* and fast_sma > slow_sma, -1 if both are defined and fast_sma < slow_sma,
\* and 0 if they are equal or either is undefined; it has no other value.
C11_SignalRule ==
    \A q \in 1..Len(signal_dict) :
        /\ Len(signal_dict[q]) = Len(data_dict[q])
        /\ \A k \in 1..Len(signal_dict[q]) :
               /\ signal_dict[q][k].signal \in {0 - 1, 0, 1}
               /\ signal_dict[q][k].signal = RuleSignal(data_dict[q], k)

C11_Witness ==
    /\ ~InvalidWindows
    /\ \E q \in 1..Len(signal_dict) :
           /\ \E k \in 1..Len(signal_dict[q]) : signal_dict[q][k].signal = 1
           /\ \E k \in 1..Len(signal_dict[q]) : signal_dict[q][k].signal = 0 - 1
           /\ \E k \in 1..Len(signal_dict[q]) :
                  /\ k >= slow
                  /\ signal_dict[q][k].signal = 0

IsConstant(closes) ==
    Len(closes) > 0 /\ \A k \in 1..Len(closes) : closes[k] = closes[1]

\* C12: a constant-price series yields total_return = 0, max_drawdown = 0
\* and an undefined (NaN) Sharpe ratio: the pipeline generate_signals ->
\* run -> evaluate_performance completes for it and produces that row
\* (stated for correctly configured windows and positive prices).
C12_ConstantSeriesRow ==
    (/\ ~InvalidWindows
     /\ \A q \in 1..Len(data_dict) :
            IsConstant(data_dict[q]) /\ AllPositive(data_dict[q])) =>
        /\ pc # "failed"
        /\ pc = "evaluated" =>
               \A q \in 1..Len(data_dict) :
                   \E r \in 1..Len(Metrics) :
                       /\ Metrics[r].pair = q
                       /\ Metrics[r].total_return = Zero
                       /\ Metrics[r].max_drawdown = Zero
                       /\ Metrics[r].sharpe_is_nan

\* the locals of run after one more bar of frame df, from the locals st
AfterBar(df, k, st) ==
    LET row == df[k]
        equity == IF FloatGt(st.position, Zero)
                  THEN Mul(st.position, row.close) ELSE st.cash
        curve == Append(st.equity_curve, <<k, equity>>)
    IN IF row.signal = 1 /\ FloatEq(st.position, Zero)
       THEN [cash |-> Zero,
             position |-> Div(st.cash, row.close),
             history |-> Append(st.history,
                 BuyRecord(k, row.close, Div(st.cash, row.close), equity)),
             equity_curve |-> curve]
       ELSE IF row.signal = 0 - 1 /\ FloatGt(st.position, Zero)
       THEN [cash |-> Mul(st.position, row.close),
             position |-> Zero,
             history |-> Append(st.history,
                 SellRecord(k, row.close, EntryOf(st.history),
                            Mul(st.position, row.close))),
             equity_curve |-> curve]
       ELSE [st EXCEPT !.equity_curve = curve]

RECURSIVE AfterBars(_, _)
\* the locals of run after the first k bars of a frame simulated on its own
AfterBars(df, k) ==
    IF k = 0
    THEN [cash |-> Num(InitialCash), position |-> Zero,
          history |-> <<>>, equity_curve |-> <<>>]
    ELSE CHOOSE next \in {AfterBar(df, k, st) : st \in {AfterBars(df, k - 1)}} :
             TRUE

\* what run records for a frame that is the only pair of its data_dict
RunAlone(df) ==
    CHOOSE rec \in
        {[history |-> st.history,
          final_value |-> IF FloatEq(st.position, Zero) THEN st.cash
                          ELSE Mul(st.position, df[Len(df)].close),
          equity_curve |-> st.equity_curve] : st \in {AfterBars(df, Len(df))}} :
        TRUE

\* C13: pairs are simulated independently: every pair starts Flat with the
\* configured cash whatever earlier pairs did, and the history, equity
\* curve and final value recorded for a pair are those of the pair run
\* alone, so they do not depend on any other pair's series.
C13_PairsIndependent ==
    [][/\ (pc = "pairs" /\ pc' = "bars") =>
              /\ cash' = Num(InitialCash)
              /\ position' = Zero
              /\ history' = <<>>
              /\ equity_curve' = <<>>
       /\ Len(results') > Len(results) =>
              \A rec \in {Last(results')} :
                  \A df \in {SignalFrame(data_dict[rec.pair], fast, slow)} :
                      \A alone \in {RunAlone(df)} :
                          /\ rec.history = alone.history
                          /\ rec.equity_curve = alone.equity_curve
                          /\ rec.final_value = alone.final_value]_vars

C13_Witness ==
    /\ Len(results) = 2
    /\ results[2].pair = 2
    /\ Last(results[1].history).action = "BUY"
    /\ data_dict[1] # data_dict[2]

\* C14: for every non-empty series, the final value run returns is the
\* cash held if the simulator ends Flat, and the position size times the
\* last bar's close if it ends Long.
C14_FinalValue ==
    [][Len(results') > Len(results) =>
          LET fv == Last(results').final_value
          IN /\ Last(results').pair = p
             /\ Len(data_dict[p]) > 0
             /\ FloatEq(position, Zero) => fv = cash
             /\ FloatGt(position, Zero) =>
                    fv = Mul(position, Num(Last(data_dict[p])))]_vars

C14_Witness ==
    \E r \in 1..Len(results) :
        /\ AllPositive(data_dict[results[r].pair])
        /\ Last(results[r].history).action = "BUY"
        /\ results[r].final_value # Num(InitialCash)

\* C15: the lagged position feature satisfies position[0] = 0 and
\* position[i] = signal[i-1] for every later bar, for every series with at
\* least one bar: the last signal never wraps around into the first bar.
C15_LaggedPosition ==
    \A q \in 1..Len(signal_dict) :
        /\ Len(signal_dict[q]) >= 1
        /\ signal_dict[q][1].position = 0
        /\ \A k \in 2..Len(signal_dict[q]) :
               signal_dict[q][k].position = signal_dict[q][k - 1].signal

C15_Witness ==
    \E q \in 1..Len(signal_dict) :
        /\ Len(signal_dict[q]) >= 3
        /\ Last(signal_dict[q]).signal # 0
        /\ \E k \in 2..Len(signal_dict[q]) : signal_dict[q][k].position # 0

\* the SELL record just written is matched to the record before it
SellMatched ==
    LET sell == Last(history')
        buy == Last(history)
    IN /\ Len(history) >= 1
       /\ buy.action = "BUY"
       /\ sell.position_size = buy.position_size
       /\ sell.position_size = position
       /\ sell.price = Row.close
       /\ FloatEq(sell.pnl,
                  Mul(sell.position_size, Sub(Row.close, buy.price)))

\* C16: every SELL record is matched to the immediately preceding BUY
\* record of the log: whenever position > 0 the entry lookup finds a BUY,
\* the SELL's position_size is that BUY's and the position held, its price
\* is the bar's close, and its pnl is position_size * (exit - entry close)
\* (stated for correctly configured windows).
C16_SellMatchesBuy ==
    [][(BarStep /\ ~InvalidWindows) =>
          /\ FloatGt(position, Zero) =>
                 Len(history) >= 1 /\ Last(history).action = "BUY"
          /\ Traded("SELL") => SellMatched]_vars

\* C16 on the series it holds for: those whose closes are all positive
C16_SellMatchesBuyPositive ==
    [][(BarStep /\ AllPositive(data_dict[p])) =>
          /\ FloatGt(position, Zero) =>
                 Len(history) >= 1 /\ Last(history).action = "BUY"
          /\ Traded("SELL") => SellMatched]_vars

\* the bar about to be processed calls for no action
NoActionBar ==
    \/ Row.signal = 0
    \/ Row.signal = 1 /\ FloatGt(position, Zero)
    \/ Row.signal = 0 - 1 /\ FloatEq(position, Zero)

\* C17: a bar with signal 0, a bar with signal +1 while already Long and a
\* bar with signal -1 while Flat cause no action: cash, position and the
\* trade log are unchanged and only an equity point is appended; a Short
\* signal while Flat never opens a position.
C17_NoActionBars ==
    [][(BarStep /\ NoActionBar) =>
          /\ cash' = cash
          /\ position' = position
          /\ history' = history
          /\ Len(equity_curve') = Len(equity_curve) + 1
          /\ \A k \in 1..Len(equity_curve) :
                 equity_curve'[k] = equity_curve[k]]_vars

C17_Witness ==
    /\ pc = "bars" /\ i >= 3
    /\ ~InvalidWindows
    /\ signal_dict[p][i].signal = 1
    /\ Len(history) = 1 /\ history[1].datetime < i
    /\ \E j \in 1..(history[1].datetime - 1) : signal_dict[p][j].signal = 0 - 1

\* C18: for every non-empty series with positive closes the final value
\* equals the value of the last equity point and the first equity point
\* equals the initial cash, also when a trade is executed on the last bar;
\* hence the total return of the curve is final_value / initial cash - 1.
C18_FinalIsLastEquity ==
    \A r \in 1..Len(results) :
        AllPositive(data_dict[results[r].pair]) =>
            LET curve == results[r].equity_curve
            IN /\ Len(curve) >= 1
               /\ FloatEq(results[r].final_value, Last(curve)[2])
               /\ FloatEq(curve[1][2], Num(InitialCash))
               /\ FloatEq(TotalReturn(EquityValues(curve)),
                          Sub(Div(results[r].final_value, Num(InitialCash)),
                              Num(1)))

C18_Witness ==
    \E r \in 1..Len(results) :
        /\ AllPositive(data_dict[results[r].pair])
        /\ Last(results[r].history).datetime = Len(data_dict[results[r].pair])
        /\ Last(results[r].history).action = "SELL"
        /\ results[r].final_value # Num(InitialCash)

RECURSIVE SumPnl(_, _)
\* the sum of the pnl fields of the first k records of a log
SumPnl(hist, k) ==
    IF k = 0 THEN Zero
    ELSE Sub(SumPnl(hist, k - 1), Sub(Zero, hist[k].pnl))

\* C19: realized PnL accounts for all capital changes: in every Flat state
\* of a series with positive closes, cash equals the initial cash plus the
\* sum of the pnl fields of the records logged so far.
C19_PnlAccountsForCash ==
    (p >= 1 /\ AllPositive(data_dict[p]) /\ FloatEq(position, Zero)) =>
        /\ FloatEq(cash, Sub(Num(InitialCash),
                             Sub(Zero, SumPnl(history, Len(history)))))
        /\ \A k \in 1..Len(history) :
               history[k].action = "BUY" => history[k].pnl = Zero

C19_Witness ==
    /\ p >= 1 /\ AllPositive(data_dict[p])
    /\ FloatEq(position, Zero)
    /\ Len(history) = 4
    /\ cash # Num(InitialCash)

\* C20: no trade happens during the moving-average warm-up and at most one
\* per bar: no record is logged at a bar before the slow window is full,
\* every record carries the timestamp of the bar it was executed on, and
\* record timestamps are strictly increasing.
C20_NoWarmupTrades ==
    [][BarStep =>
          /\ Len(history') <= Len(history) + 1
          /\ Len(history') > Len(history) =>
                 /\ Last(history').datetime = i + 1
                 /\ \A k \in 1..Len(history) : history'[k] = history[k]
          /\ \A k \in 1..Len(history') : history'[k].datetime >= slow
          /\ \A k \in 1..(Len(history') - 1) :
                 history'[k].datetime < history'[k + 1].datetime]_vars

C20_Witness ==
    /\ pc = "bars"
    /\ slow >= 2 /\ ~InvalidWindows
    /\ Len(history) >= 2
    /\ history[1].datetime = slow
    /\ history[2].datetime = slow + 1

====
